---- MODULE Spec2Model ----
(***************************************************************************)
(* Model of server/adapter/rest/transaction.resource.js: the REST adapter  *)
(* that maps five routes onto calls of the external transactionService.    *)
(*                                                                         *)
(* A request is identified by its arrival index.  Each handler runs its    *)
(* synchronous part when the request arrives, suspends on the promise the  *)
(* service returned, and resumes in a .then / .catch callback when the     *)
(* service settles that promise.  The service and the logger are external: *)
(* the outcome of a service call is an input of the callback that resumes. *)
(***************************************************************************)
EXTENDS Integers, Sequences, FiniteSets, TLC

(***************************************************************************)
(* Bounds                                                                  *)
(***************************************************************************)
MaxRequests == 2        \* requests in flight together (safety)
MaxLiveRequests == 1    \* requests in flight together (liveness)

Requests == 1..MaxRequests
LiveRequests == 1..MaxLiveRequests

(***************************************************************************)
(* JavaScript values                                                       *)
(***************************************************************************)
Undefined == [t |-> "undefined"]
Str(s) == [t |-> "string", v |-> s]
InvalidDate == [t |-> "date", valid |-> FALSE, time |-> 0]
ValidDate(days) == [t |-> "date", valid |-> TRUE, time |-> days]

\* The ISO date strings of the model and the time value (in days since the
\* epoch) Date parses them to; every other string does not parse.
DateTable == [s \in {"2014-01-01", "2014-12-31"} |->
                IF s = "2014-01-01" THEN 16071 ELSE 16435]

\* new Date(x)
NewDate(x) ==
    IF x.t = "string"
    THEN IF x.v \in DOMAIN DateTable THEN ValidDate(DateTable[x.v]) ELSE InvalidDate
    ELSE IF x.t = "date" THEN x
    ELSE InvalidDate

\* if (x): undefined and the empty string are falsy
Truthy(x) ==
    IF x.t = "undefined" THEN FALSE
    ELSE IF x.t = "string" THEN x.v # ""
    ELSE TRUE

\* typeof x !== 'undefined'
Defined(x) == x.t # "undefined"

(***************************************************************************)
(* The requests a client can send                                          *)
(***************************************************************************)
Ids == {"t1", "t2"}
TxnDates == {Undefined, Str(""), Str("2014-01-01")}
CreateBodies == {[id |-> Undefined, txn_date |-> d] : d \in TxnDates}
\* PUT requests as <<path id, body>>; the body names the record by itself
UpdateRequests == { <<"t1", [id |-> Str("t1"), txn_date |-> Str("2014-01-01")]>>,
                    <<"t1", [id |-> Str("t2"), txn_date |-> Undefined]>>,
                    <<"t2", [id |-> Str("t2"), txn_date |-> Str("")]>> }
NoBody == [id |-> Undefined, txn_date |-> Undefined]
DateRanges == { <<Undefined, Undefined>>,
                <<Str("2014-01-01"), Str("2014-12-31")>>,
                <<Str(""), Str("2014-12-31")>> }
Queries == {[account |-> a, groupByCategory |-> g, startDate |-> d[1], endDate |-> d[2]] :
              a \in {Undefined, Str("a1")},
              g \in {Undefined, Str("")},
              d \in DateRanges}
NoQuery == [account |-> Undefined, groupByCategory |-> Undefined,
            startDate |-> Undefined, endDate |-> Undefined]
NoRequest == [handler |-> "none", body |-> NoBody, params |-> [id |-> Undefined], query |-> NoQuery]

(***************************************************************************)
(* What the external collaborators can answer                              *)
(***************************************************************************)
\* the record a mutation resolves with, and the full record getTransaction
\* resolves with (account and category joined)
Stored(i) == [id |-> i, joined |-> FALSE]
Full(i) == [id |-> i, joined |-> TRUE]
Mutated == {Stored(i) : i \in Ids}
FlatList == [t |-> "list", grouped |-> FALSE, items |-> <<Full("t1"), Full("t2")>>]
GroupedList == [t |-> "list", grouped |-> TRUE, items |-> <<Full("t2")>>]

NotFoundError == [name |-> "NotFoundError", message |-> "not found"]
GenericError == [name |-> "Error", message |-> "db down"]
Errors == {NotFoundError, GenericError}

\* error instanceof errors.NotFoundError
IsNotFound(error) == error.name = "NotFoundError"

\* error.toString()
ErrToString(error) ==
    IF error.message = "" THEN error.name ELSE error.name \o ": " \o error.message

\* how the service settled a call
Ok(value) == [ok |-> TRUE, value |-> value]
Failed(error) == [ok |-> FALSE, error |-> error]

(***************************************************************************)
(* State                                                                   *)
(***************************************************************************)
VARIABLES
    pc,       \* pc[r]: where request r is: idle, suspended on a call, or done
    req,      \* req[r]: the request as the client sent it
    id,       \* id[r]: the local variable id of getTransaction / deleteTransaction
    calls,    \* calls[r]: the service calls made for r, in order
    results,  \* results[r]: how the service settled them, in order
    out       \* out[r]: what the handler gave the logger and the response, in order

vars == <<pc, req, id, calls, results, out>>

Init ==
    /\ pc = [r \in Requests |-> "idle"]
    /\ req = [r \in Requests |-> NoRequest]
    /\ id = [r \in Requests |-> Undefined]
    /\ calls = [r \in Requests |-> <<>>]
    /\ results = [r \in Requests |-> <<>>]
    /\ out = [r \in Requests |-> <<>>]

\* Request r is the r-th request to arrive.
Arrives(r) == pc[r] = "idle" /\ (IF r = 1 THEN TRUE ELSE pc[r - 1] # "idle")

Call(op, args) == [op |-> op, args |-> args]
Logged(error) == [type |-> "log", error |-> error]
Sent(status, body) == [type |-> "send", status |-> status, body |-> body]
Message(text) == [message |-> text]

\* mutant: the response is sent before the error is logged
LogAndSend500_sendFirst(error) == << Sent(500, Message(ErrToString(error))), Logged(error) >>

\* log.error(error); res.status(500).send({'message': error.toString()});
LogAndSend500(error) == << Logged(error), Sent(500, Message(ErrToString(error))) >>

\* the bookkeeping shared by the actions
Arrive(r, request, state, call) ==
    /\ Arrives(r)
    /\ req' = [req EXCEPT ![r] = request]
    /\ pc' = [pc EXCEPT ![r] = state]
    /\ calls' = [calls EXCEPT ![r] = Append(@, call)]
    /\ UNCHANGED <<results, out>>

Settle(r, outcome) == results' = [results EXCEPT ![r] = Append(@, outcome)]
Emit(r, effects) == out' = [out EXCEPT ![r] = @ \o effects]
Finish(r) == pc' = [pc EXCEPT ![r] = "done"]

(***************************************************************************)
(* POST /transactions                                                      *)
(***************************************************************************)
createTransaction(r, body) ==
    LET transactionData == [body EXCEPT !.txn_date = NewDate(@)] IN
    /\ Arrive(r, [NoRequest EXCEPT !.handler = "createTransaction", !.body = body],
              "create1", Call("createTransaction", <<transactionData>>))
    /\ UNCHANGED id

\* mutant: the record the mutation returned is sent without a re-fetch
createThenRefetch_trustMutation(r, transaction) ==
    /\ pc[r] = "create1"
    /\ Settle(r, Ok(transaction))
    /\ Emit(r, << Sent(200, transaction) >>)
    /\ Finish(r)
    /\ UNCHANGED <<req, id, calls>>

\* .then(function(transaction) { return transactionService.getTransaction(transaction.id); })
createThenRefetch(r, transaction) ==
    /\ pc[r] = "create1"
    /\ Settle(r, Ok(transaction))
    /\ calls' = [calls EXCEPT ![r] = Append(@, Call("getTransaction", <<Str(transaction.id)>>))]
    /\ pc' = [pc EXCEPT ![r] = "create2"]
    /\ UNCHANGED <<req, id, out>>

\* .then(function(transaction) { res.send(transaction); })
createThenSend(r, transaction) ==
    /\ pc[r] = "create2"
    /\ Settle(r, Ok(transaction))
    /\ Emit(r, << Sent(200, transaction) >>)
    /\ Finish(r)
    /\ UNCHANGED <<req, id, calls>>

\* mutant: a not-found error is answered 404 as in the get handler
createCatch_notFound404(r, error) ==
    /\ pc[r] \in {"create1", "create2"}
    /\ Settle(r, Failed(error))
    /\ Emit(r, IF IsNotFound(error)
               THEN << Sent(404, Message(ErrToString(error))) >>
               ELSE LogAndSend500(error))
    /\ Finish(r)
    /\ UNCHANGED <<req, id, calls>>

\* .catch(function(error) { ... }): a rejection of either call skips the
\* remaining .then callbacks and lands here
createCatch(r, error) ==
    /\ pc[r] \in {"create1", "create2"}
    /\ Settle(r, Failed(error))
    /\ Emit(r, LogAndSend500(error))
    /\ Finish(r)
    /\ UNCHANGED <<req, id, calls>>

(***************************************************************************)
(* PUT /transactions/:id                                                   *)
(***************************************************************************)
updateTransaction(r, i, body) ==
    LET transactionData == [body EXCEPT !.txn_date = NewDate(@)] IN
    /\ Arrive(r, [NoRequest EXCEPT !.handler = "updateTransaction", !.body = body,
                                   !.params = [id |-> Str(i)]],
              "update1", Call("updateTransaction", <<transactionData>>))
    /\ UNCHANGED id

updateThenRefetch(r, transaction) ==
    /\ pc[r] = "update1"
    /\ Settle(r, Ok(transaction))
    /\ calls' = [calls EXCEPT ![r] = Append(@, Call("getTransaction", <<Str(transaction.id)>>))]
    /\ pc' = [pc EXCEPT ![r] = "update2"]
    /\ UNCHANGED <<req, id, out>>

updateThenSend(r, transaction) ==
    /\ pc[r] = "update2"
    /\ Settle(r, Ok(transaction))
    /\ Emit(r, << Sent(200, transaction) >>)
    /\ Finish(r)
    /\ UNCHANGED <<req, id, calls>>

\* mutant: the record is re-fetched although the update failed
updateCatch_refetch(r, error) ==
    /\ pc[r] \in {"update1", "update2"}
    /\ Settle(r, Failed(error))
    /\ IF pc[r] = "update1"
       THEN /\ calls' = [calls EXCEPT ![r] = Append(@, Call("getTransaction", <<req[r].body.id>>))]
            /\ pc' = [pc EXCEPT ![r] = "update2"]
            /\ UNCHANGED out
       ELSE /\ Emit(r, LogAndSend500(error))
            /\ Finish(r)
            /\ UNCHANGED calls
    /\ UNCHANGED <<req, id>>

updateCatch(r, error) ==
    /\ pc[r] \in {"update1", "update2"}
    /\ Settle(r, Failed(error))
    /\ Emit(r, LogAndSend500(error))
    /\ Finish(r)
    /\ UNCHANGED <<req, id, calls>>

(***************************************************************************)
(* GET /transactions/:id                                                   *)
(***************************************************************************)
\* mutant: id is one variable shared by all requests
getTransaction_sharedId(r, i) ==
    /\ id' = [q \in Requests |-> Str(i)]
    /\ Arrive(r, [NoRequest EXCEPT !.handler = "getTransaction", !.params = [id |-> Str(i)]],
              "get", Call("getTransaction", <<id'[r]>>))

getTransaction(r, i) ==
    /\ id' = [id EXCEPT ![r] = Str(i)]
    /\ Arrive(r, [NoRequest EXCEPT !.handler = "getTransaction", !.params = [id |-> Str(i)]],
              "get", Call("getTransaction", <<id'[r]>>))

getThen(r, transaction) ==
    /\ pc[r] = "get"
    /\ Settle(r, Ok(transaction))
    /\ Emit(r, << Sent(200, transaction) >>)
    /\ Finish(r)
    /\ UNCHANGED <<req, id, calls>>

\* mutant: no filtered .catch, a not-found error is handled as any other
getCatchNotFound_generic(r, error) ==
    /\ pc[r] = "get"
    /\ IsNotFound(error)
    /\ Settle(r, Failed(error))
    /\ Emit(r, LogAndSend500(error))
    /\ Finish(r)
    /\ UNCHANGED <<req, id, calls>>

\* mutant: the 404 handler rethrows, so the generic .catch responds as well
getCatchNotFound_fallThrough(r, error) ==
    /\ pc[r] = "get"
    /\ IsNotFound(error)
    /\ Settle(r, Failed(error))
    /\ Emit(r, << Sent(404, Message("Transaction " \o id[r].v \o " does not exist")) >>
               \o LogAndSend500(error))
    /\ Finish(r)
    /\ UNCHANGED <<req, id, calls>>

\* .catch(errors.NotFoundError, function() { ... }): the promise this handler
\* returns is fulfilled, so the generic .catch after it does not run
getCatchNotFound(r, error) ==
    /\ pc[r] = "get"
    /\ IsNotFound(error)
    /\ Settle(r, Failed(error))
    /\ Emit(r, << Sent(404, Message("Transaction " \o id[r].v \o " does not exist")) >>)
    /\ Finish(r)
    /\ UNCHANGED <<req, id, calls>>

\* .catch(function(error) { ... }): reached by the rejections the filtered
\* .catch before it let through
getCatch(r, error) ==
    /\ pc[r] = "get"
    /\ ~IsNotFound(error)
    /\ Settle(r, Failed(error))
    /\ Emit(r, LogAndSend500(error))
    /\ Finish(r)
    /\ UNCHANGED <<req, id, calls>>

(***************************************************************************)
(* GET /transactions                                                       *)
(***************************************************************************)
\* mutant: if (groupByCategory) instead of the typeof test
getTransactions_truthy(r, query) ==
    LET accountId == query.account
        groupByCategory == query.groupByCategory
        startDate == IF Truthy(query.startDate) THEN NewDate(query.startDate) ELSE query.startDate
        endDate == IF Truthy(query.endDate) THEN NewDate(query.endDate) ELSE query.endDate
        request == [NoRequest EXCEPT !.handler = "getTransactions", !.query = query]
    IN
    /\ IF Truthy(groupByCategory)
       THEN Arrive(r, request, "listByCategory",
                   Call("getTransactionsByCategory", <<startDate, endDate>>))
       ELSE Arrive(r, request, "list", Call("getTransactions", <<accountId>>))
    /\ UNCHANGED id

getTransactions(r, query) ==
    LET accountId == query.account
        groupByCategory == query.groupByCategory
        startDate == IF Truthy(query.startDate) THEN NewDate(query.startDate) ELSE query.startDate
        endDate == IF Truthy(query.endDate) THEN NewDate(query.endDate) ELSE query.endDate
        request == [NoRequest EXCEPT !.handler = "getTransactions", !.query = query]
    IN
    /\ IF Defined(groupByCategory)
       THEN Arrive(r, request, "listByCategory",
                   Call("getTransactionsByCategory", <<startDate, endDate>>))
       ELSE Arrive(r, request, "list", Call("getTransactions", <<accountId>>))
    /\ UNCHANGED id

getTransactionsByCategoryThen(r, transactionsByCategory) ==
    /\ pc[r] = "listByCategory"
    /\ Settle(r, Ok(transactionsByCategory))
    /\ Emit(r, << Sent(200, transactionsByCategory) >>)
    /\ Finish(r)
    /\ UNCHANGED <<req, id, calls>>

getTransactionsByCategoryCatch(r, error) ==
    /\ pc[r] = "listByCategory"
    /\ Settle(r, Failed(error))
    /\ Emit(r, LogAndSend500(error))
    /\ Finish(r)
    /\ UNCHANGED <<req, id, calls>>

getTransactionsThen(r, transactions) ==
    /\ pc[r] = "list"
    /\ Settle(r, Ok(transactions))
    /\ Emit(r, << Sent(200, transactions) >>)
    /\ Finish(r)
    /\ UNCHANGED <<req, id, calls>>

getTransactionsCatch(r, error) ==
    /\ pc[r] = "list"
    /\ Settle(r, Failed(error))
    /\ Emit(r, LogAndSend500(error))
    /\ Finish(r)
    /\ UNCHANGED <<req, id, calls>>

(***************************************************************************)
(* DELETE /transactions/:id                                                *)
(***************************************************************************)
\* mutant: the handler looks the record up before deleting it
deleteTransaction_existenceCheck(r, i) ==
    /\ id' = [id EXCEPT ![r] = Str(i)]
    /\ Arrive(r, [NoRequest EXCEPT !.handler = "deleteTransaction", !.params = [id |-> Str(i)]],
              "get", Call("getTransaction", <<id'[r]>>))

deleteTransaction(r, i) ==
    /\ id' = [id EXCEPT ![r] = Str(i)]
    /\ Arrive(r, [NoRequest EXCEPT !.handler = "deleteTransaction", !.params = [id |-> Str(i)]],
              "delete", Call("deleteTransaction", <<id'[r]>>))

\* .then(function() { res.status(204).send(); })
deleteThen(r) ==
    /\ pc[r] = "delete"
    /\ Settle(r, Ok(Undefined))
    /\ Emit(r, << Sent(204, Undefined) >>)
    /\ Finish(r)
    /\ UNCHANGED <<req, id, calls>>

deleteCatch(r, error) ==
    /\ pc[r] = "delete"
    /\ Settle(r, Failed(error))
    /\ Emit(r, LogAndSend500(error))
    /\ Finish(r)
    /\ UNCHANGED <<req, id, calls>>

(***************************************************************************)
(* Specifications                                                          *)
(***************************************************************************)
\* the full record the service resolves the pending getTransaction call with
Fetched(r) ==
    IF calls[r] # <<>> /\ calls[r][Len(calls[r])].op = "getTransaction"
    THEN {Full(calls[r][Len(calls[r])].args[1].v)}
    ELSE {}

\* a request arrives and its handler runs up to its first suspension
Receive(r) ==
    \/ \E body \in CreateBodies : createTransaction(r, body)
    \/ \E u \in UpdateRequests : updateTransaction(r, u[1], u[2])
    \/ \E i \in Ids : getTransaction(r, i)
    \/ \E query \in Queries : getTransactions(r, query)
    \/ \E i \in Ids : deleteTransaction(r, i)

\* the service settles the call r is suspended on and the callback runs
Resume(r) ==
    \/ \E transaction \in Mutated : createThenRefetch(r, transaction)
    \/ \E transaction \in Fetched(r) : createThenSend(r, transaction)
    \/ \E error \in Errors : createCatch(r, error)
    \/ \E transaction \in Mutated : updateThenRefetch(r, transaction)
    \/ \E transaction \in Fetched(r) : updateThenSend(r, transaction)
    \/ \E error \in Errors : updateCatch(r, error)
    \/ \E transaction \in Fetched(r) : getThen(r, transaction)
    \/ \E error \in Errors : getCatchNotFound(r, error)
    \/ \E error \in Errors : getCatch(r, error)
    \/ getTransactionsByCategoryThen(r, GroupedList)
    \/ \E error \in Errors : getTransactionsByCategoryCatch(r, error)
    \/ getTransactionsThen(r, FlatList)
    \/ \E error \in Errors : getTransactionsCatch(r, error)
    \/ deleteThen(r)
    \/ \E error \in Errors : deleteCatch(r, error)

Next == \E r \in Requests : Receive(r) \/ Resume(r)

Spec == Init /\ [][Next]_vars

\* Every service call eventually settles, so a suspended handler resumes.
LiveNext == \E r \in LiveRequests : Receive(r) \/ Resume(r)

LiveSpec == Init /\ [][LiveNext]_vars /\ \A r \in LiveRequests : WF_vars(Resume(r))

(***************************************************************************)
(* Properties                                                              *)
(***************************************************************************)
Done(r) == pc[r] = "done"
Sends(r) == SelectSeq(out[r], LAMBDA e : e.type = "send")
Logs(r) == SelectSeq(out[r], LAMBDA e : e.type = "log")
AllSucceeded(r) == \A k \in 1..Len(results[r]) : results[r][k].ok
IsMutation(r) == req[r].handler \in {"createTransaction", "updateTransaction"}
\* the k-th service call of r failed with the not-found kind
FailedNotFound(r, k) ==
    k \in 1..Len(results[r]) /\ ~results[r][k].ok /\ IsNotFound(results[r][k].error)

\* C1: a create or update request calls the mutating operation exactly once,
\* calls getTransaction only after the mutation has completed and with the id
\* of the record the mutation returned, and when both calls succeed answers
\* 200 with the result of getTransaction, not the mutation's return value.
C1_MutateThenRefetch ==
    \A r \in Requests : IsMutation(r) =>
        /\ Len(calls[r]) >= 1
        /\ \A k \in 1..Len(calls[r]) : (calls[r][k].op = req[r].handler) <=> (k = 1)
        /\ Len(calls[r]) >= 2 => Len(results[r]) >= 1 /\ results[r][1].ok
        /\ (Len(results[r]) >= 1 /\ results[r][1].ok) =>
               /\ Len(calls[r]) = 2
               /\ calls[r][2] = Call("getTransaction", <<Str(results[r][1].value.id)>>)
        /\ (Done(r) /\ AllSucceeded(r)) =>
               /\ Len(results[r]) = 2
               /\ out[r] = << Sent(200, results[r][2].value) >>
               /\ out[r][1].body # results[r][1].value

\* an update whose service returned a record under another id than the body's
\* has been answered with the re-fetched record
C1_Witness ==
    \E r \in Requests :
        /\ req[r].handler = "updateTransaction" /\ Done(r) /\ AllSucceeded(r)
        /\ results[r][1].value.id # req[r].body.id.v
        /\ out[r] = << Sent(200, Full(results[r][1].value.id)) >>

\* C2: a single-record get whose service call fails with the not-found kind
\* is answered 404 with the message naming the path id, and with nothing else.
C2_GetNotFoundIs404 ==
    \A r \in Requests :
        (req[r].handler = "getTransaction" /\ FailedNotFound(r, 1)) =>
            out[r] = << Sent(404, Message("Transaction " \o req[r].params.id.v \o " does not exist")) >>

C2_Witness ==
    \E r \in Requests :
        /\ req[r].handler = "getTransaction" /\ FailedNotFound(r, 1)
        /\ req[r].params.id = Str("t2")
        /\ Sends(r) = << Sent(404, Message("Transaction t2 does not exist")) >>

\* C3: every service failure, except a not-found failure of the single-record
\* get, is answered 500 with the error's string form as message; a not-found
\* failure of the re-fetch, of delete or of a list path is a 500, never a 404.
C3_OtherFailuresAre500 ==
    \A r \in Requests : \A k \in 1..Len(results[r]) :
        (~results[r][k].ok /\ ~(req[r].handler = "getTransaction" /\ FailedNotFound(r, k))) =>
            Sends(r) = << Sent(500, Message(ErrToString(results[r][k].error))) >>

\* the re-fetch of a create failed not-found and the answer is the 500
C3_Witness ==
    \E r \in Requests :
        /\ req[r].handler = "createTransaction" /\ FailedNotFound(r, 2)
        /\ Sends(r) = << Sent(500, Message("NotFoundError: not found")) >>

\* C4: a delete request makes the one service call deleteTransaction(path id),
\* no getTransaction call, and when that call succeeds answers 204 with an
\* empty body.
C4_DeleteNoExistenceCheck ==
    \A r \in Requests : req[r].handler = "deleteTransaction" =>
        /\ calls[r] = << Call("deleteTransaction", <<req[r].params.id>>) >>
        /\ (Len(results[r]) = 1 /\ results[r][1].ok) => out[r] = << Sent(204, Undefined) >>

C4_Witness ==
    \E r \in Requests :
        /\ req[r].handler = "deleteTransaction" /\ Done(r) /\ AllSucceeded(r)
        /\ Sends(r) = << Sent(204, Undefined) >>

\* C5: a list request makes one service call: getTransactionsByCategory with the
\* start and end date (and not the account) when the groupByCategory parameter
\* is present, whatever its value; getTransactions with the account (and no
\* date) when it is absent.  A success is answered 200 with the service's
\* result unmodified.
C5_ListBranches ==
    \A r \in Requests : req[r].handler = "getTransactions" =>
        LET q == req[r].query IN
        /\ Len(calls[r]) = 1
        /\ IF q.groupByCategory # Undefined
           THEN /\ calls[r][1].op = "getTransactionsByCategory"
                /\ Len(calls[r][1].args) = 2
                /\ calls[r][1].args[1] \in {q.startDate, NewDate(q.startDate)}
                /\ calls[r][1].args[2] \in {q.endDate, NewDate(q.endDate)}
           ELSE calls[r][1] = Call("getTransactions", <<q.account>>)
        /\ (Len(results[r]) = 1 /\ results[r][1].ok) =>
               out[r] = << Sent(200, results[r][1].value) >>

\* groupByCategory is the empty string and an account is given: the grouped
\* listing was called and its result sent
C5_Witness ==
    \E r \in Requests :
        /\ req[r].handler = "getTransactions" /\ Done(r)
        /\ req[r].query.groupByCategory = Str("") /\ req[r].query.account = Str("a1")
        /\ calls[r][1].op = "getTransactionsByCategory"
        /\ Sends(r) = << Sent(200, GroupedList) >>

\* C6: every date field the request supplied as a string (txn_date of the body;
\* startDate and endDate of a grouped listing) reaches the service as a date
\* value, never as a string, the empty string included.
C6_DatesCoerced ==
    \A r \in Requests : \A k \in 1..Len(calls[r]) :
        /\ calls[r][k].op \in {"createTransaction", "updateTransaction"} =>
              (req[r].body.txn_date.t = "string" => calls[r][k].args[1].txn_date.t = "date")
        /\ calls[r][k].op = "getTransactionsByCategory" =>
              /\ req[r].query.startDate.t = "string" => calls[r][k].args[1].t = "date"
              /\ req[r].query.endDate.t = "string" => calls[r][k].args[2].t = "date"

\* C7: within one request no service operation is invoked twice, and after a
\* service call of the request has failed no further call is made for it.
C7_NoRetry ==
    \A r \in Requests :
        /\ \A j, k \in 1..Len(calls[r]) : j # k => calls[r][j].op # calls[r][k].op
        /\ \A k \in 1..Len(results[r]) : ~results[r][k].ok => Len(calls[r]) = k

\* a create whose mutation failed has finished with that one call
C7_Witness ==
    \E r \in Requests :
        /\ req[r].handler = "createTransaction" /\ Done(r)
        /\ Len(results[r]) = 1 /\ ~results[r][1].ok
        /\ Len(calls[r]) = 1

\* the response a request gets, as a function of the request and of the
\* outcomes of its own service calls
OwnResponse(request, outcomes) ==
    LET last == outcomes[Len(outcomes)] IN
    IF last.ok
    THEN IF request.handler = "deleteTransaction" THEN Sent(204, Undefined)
         ELSE Sent(200, last.value)
    ELSE IF request.handler = "getTransaction" /\ IsNotFound(last.error)
         THEN Sent(404, Message("Transaction " \o request.params.id.v \o " does not exist"))
         ELSE Sent(500, Message(ErrToString(last.error)))

\* C8: under every interleaving of the requests in flight, what is sent for a
\* request is determined by that request and the outcomes of its own service
\* calls; a request still suspended has been sent nothing.
C8_RequestsIndependent ==
    \A r \in Requests :
        IF Done(r) THEN Sends(r) = << OwnResponse(req[r], results[r]) >>
        ELSE out[r] = <<>>

\* two gets for different ids in flight together: the later one has failed
\* not-found and its 404 names its own id while the earlier is still suspended
C8_Witness ==
    \E r, s \in Requests :
        /\ r < s /\ pc[r] = "get" /\ Done(s)
        /\ req[s].handler = "getTransaction" /\ FailedNotFound(s, 1)
        /\ req[r].params.id # req[s].params.id
        /\ Sends(s) = << Sent(404, Message("Transaction " \o req[s].params.id.v \o " does not exist")) >>

\* C9: an error answered with a 500 is given to the logger exactly once, before
\* the 500 is sent; the not-found error of a 404 is not logged; nothing is
\* logged for a request whose service calls all succeed.
C9_LoggedOnceBefore500 ==
    \A r \in Requests :
        /\ AllSucceeded(r) => Logs(r) = <<>>
        /\ \A k \in 1..Len(results[r]) : ~results[r][k].ok =>
              IF req[r].handler = "getTransaction" /\ FailedNotFound(r, k)
              THEN Logs(r) = <<>>
              ELSE /\ Logs(r) = << Logged(results[r][k].error) >>
                   /\ \E i, j \in 1..Len(out[r]) :
                         /\ i < j
                         /\ out[r][i].type = "log"
                         /\ out[r][j].type = "send" /\ out[r][j].status = 500
        /\ \A j \in 1..Len(out[r]) :
              (out[r][j].type = "send" /\ out[r][j].status = 500) =>
                 \E i \in 1..(j - 1) : out[r][i].type = "log"

\* a delete failed and its error went to the logger before the 500
C9_Witness ==
    \E r \in Requests :
        /\ req[r].handler = "deleteTransaction" /\ Done(r)
        /\ out[r] = << Logged(GenericError), Sent(500, Message("Error: db down")) >>

\* C10: when every service call settles, each request that arrived is
\* eventually sent exactly one response: never a second one, and never none.
C10_ExactlyOneResponse ==
    \A r \in LiveRequests :
        /\ [](Len(Sends(r)) <= 1)
        /\ [](Done(r) => Len(Sends(r)) = 1)
        /\ (pc[r] # "idle") ~> Done(r)

\* a get that failed not-found has finished with the 404 as its one response
C10_Witness ==
    \E r \in LiveRequests :
        /\ req[r].handler = "getTransaction" /\ Done(r) /\ FailedNotFound(r, 1)
        /\ Len(Sends(r)) = 1 /\ Sends(r)[1].status = 404

====
